---- MODULE Spec2Model ----
(***************************************************************************)
(* Model of maya_signatures/commands/scrape.py: the Scrape command, its    *)
(* process-wide memoized scrape_command, the JSON cache file it loads      *)
(* before a batch and saves after it, and the flag-table parser.           *)
(*                                                                         *)
(* Text is modelled as a sequence of tokens (words, " ", "\n", "(", ")"),  *)
(* so that strip, replace, split and the substring test act on it the way  *)
(* the string methods do.  URLs and command names are TLA+ strings.        *)
(***************************************************************************)
EXTENDS Integers, Sequences, FiniteSets, TLC

VARIABLES
    file,               \* the cache file scrape.json on disk
    tmp,                \* the NamedTemporaryFile of _write_tempfile
    cache,              \* scrape_command.cache: the process-wide memo dict
    alive,              \* the caller holds a constructed Scrape instance
    maya_version,       \* self.maya_version
    kwargs,             \* self.kwargs['MAYA_CMDS']
    command_signatures, \* self.command_signatures
    pc,                 \* position of the single thread of control
    idx,                \* position of the for loop of _store_commands
    exc,                \* the exception propagating out of run(), or "none"
    op,                 \* the operation that made the last step
    fetchLog,           \* history: <<url, outcome>> of every fetch of this run
    runStored,          \* history: command names stored by this run
    fileAtRunStart,     \* history: the cache file when this run started
    cacheAtRunStart,    \* history: the memo dict when this run started
    saved,              \* history: the dict the file was last fully saved from
    resetState,         \* history: reset_cache calls of this process
    lab                 \* the parser and the stub builder run on one page

processVars ==
    <<file, tmp, cache, alive, maya_version, kwargs, command_signatures,
      pc, idx, exc, op, fetchLog, runStored, fileAtRunStart,
      cacheAtRunStart, saved, resetState>>

vars == <<processVars, lab>>

-----------------------------------------------------------------------------
(* Bounds *)

\* longest MAYA_CMDS list given to an instance
MaxCmds == 2

Commands == {"ls", "mv"}
Versions == {"2017", "2018"}

-----------------------------------------------------------------------------
(* Mappings (Python dicts) *)

EmptyMap == <<>>

Put(m, k, v) == [x \in (DOMAIN m) \cup {k} |-> IF x = k THEN v ELSE m[x]]

Range(s) == {s[n] : n \in DOMAIN s}

-----------------------------------------------------------------------------
(* Class attributes and _build_url *)

BASEURL(MAYAVERSION) ==
    "http://help.autodesk.com/cloudhelp/" \o MAYAVERSION
        \o "/ENU/Maya-Tech-Docs/CommandsPython/"

_EXTENSION == "html"

_URL_BUILDER(BASE, COMMAND, EXT) == BASE \o COMMAND \o "." \o EXT

_build_url(version, command) ==
    _URL_BUILDER(BASEURL(version), command, _EXTENSION)

-----------------------------------------------------------------------------
(* Text helpers: str.strip, str.replace, str.split, the `in` test *)

IsSpace(t) == t \in {" ", "\n", "\t"}

RECURSIVE LStrip(_)
LStrip(text) ==
    IF text # <<>> /\ IsSpace(Head(text)) THEN LStrip(Tail(text)) ELSE text

RECURSIVE RStrip(_)
RStrip(text) ==
    IF text # <<>> /\ IsSpace(text[Len(text)])
    THEN RStrip(SubSeq(text, 1, Len(text) - 1))
    ELSE text

Strip(text) == RStrip(LStrip(text))

Replace(text, old, new) ==
    [n \in DOMAIN text |-> IF text[n] = old THEN new ELSE text[n]]

Remove(text, old) == SelectSeq(text, LAMBDA t : t # old)

\* text.split(sep): the parts between the occurrences of sep, empty ones kept
RECURSIVE Split(_, _)
Split(text, sep) ==
    IF \A n \in DOMAIN text : text[n] # sep
    THEN <<text>>
    ELSE LET at == CHOOSE n \in DOMAIN text :
                       text[n] = sep /\ \A m \in 1..(n - 1) : text[m] # sep
         IN  <<SubSeq(text, 1, at - 1)>>
                 \o Split(SubSeq(text, at + 1, Len(text)), sep)

\* needle in text
Contains(text, needle) ==
    \E n \in 0..(Len(text) - Len(needle)) :
        SubSeq(text, n + 1, n + Len(needle)) = needle

Marker == <<"Long", " ", "name", " ", "(", "short", " ", "name", ")">>

-----------------------------------------------------------------------------
(* _parse_flag_table and _compile_flag_table                                *)
(* A page is [body, tables]; a table is the sequence of its cells in       *)
(* document order; a cell is [tag, colspan, text].                          *)

Ok(v) == [exc |-> "none", val |-> v]
Raise(e) == [exc |-> e, val |-> EmptyMap]

HasMarker(table) == \E n \in DOMAIN table : Contains(table[n].text, Marker)

\* a cell split that strips one trailing ')' of the second part only
CellElementsTrailing(cell) ==
    LET text == Replace(Strip(cell.text), "\n", " ")
        parts == Split(text, "(")
        second == parts[2]
    IN  IF Len(parts) = 2 /\ \A n \in DOMAIN text : text[n] # " "
        THEN <<parts[1],
               IF second # <<>> /\ second[Len(second)] = ")"
               THEN SubSeq(second, 1, Len(second) - 1) ELSE second>>
        ELSE IF text # <<>> THEN <<text>> ELSE <<>>

\* lines 194-200: the elements one td cell adds to data
CellElements(cell) ==
    LET text == Replace(Strip(cell.text), "\n", " ")
        parts == Split(text, "(")
    IN  IF Len(parts) = 2 /\ \A n \in DOMAIN text : text[n] # " "
        THEN <<Remove(parts[1], ")"), Remove(parts[2], ")")>>
        ELSE IF text # <<>> THEN <<text>> ELSE <<>>

\* a cell loop that takes th cells as well as td cells
RECURSIVE TableDataAllCells(_)
TableDataAllCells(cells) ==
    IF cells = <<>> THEN <<>>
    ELSE LET cell == Head(cells)
         IN  (IF ~cell.colspan THEN CellElements(cell) ELSE <<>>)
                 \o TableDataAllCells(Tail(cells))

\* a cell loop that does not look at colspan
RECURSIVE TableDataKeepingColspan(_)
TableDataKeepingColspan(cells) ==
    IF cells = <<>> THEN <<>>
    ELSE LET cell == Head(cells)
         IN  (IF cell.tag = "td" THEN CellElements(cell) ELSE <<>>)
                 \o TableDataKeepingColspan(Tail(cells))

\* lines 190-200: the flat data list of the selected table
RECURSIVE TableData(_)
TableData(cells) ==
    IF cells = <<>> THEN <<>>
    ELSE LET cell == Head(cells)
         IN  (IF cell.tag = "td" /\ ~cell.colspan
              THEN CellElements(cell) ELSE <<>>) \o TableData(Tail(cells))

\* a grouping that drops a remainder of fewer than four elements
ChunksWhole(data) ==
    [g \in 1..(Len(data) \div 4) |-> SubSeq(data, 4 * (g - 1) + 1, 4 * g)]

\* line 202: [data[x:x + 4] for x in range(0, len(data), 4)]
Chunks(data) ==
    [g \in 1..((Len(data) + 3) \div 4) |->
        SubSeq(data, 4 * (g - 1) + 1,
               IF 4 * g < Len(data) THEN 4 * g ELSE Len(data))]

\* a parser that takes the last table holding the marker
ParseLastTable(page) ==
    IF ~page.body THEN Raise("AttributeError")
    ELSE LET matching == SelectSeq(page.tables, HasMarker)
         IN  IF matching = <<>> THEN Raise("IndexError")
             ELSE Ok(Chunks(TableData(matching[Len(matching)])))

\* lines 180-202
_parse_flag_table(page) ==
    IF ~page.body THEN Raise("AttributeError")
    ELSE LET matching == SelectSeq(page.tables, HasMarker)
         IN  IF matching = <<>> THEN Raise("IndexError")
             ELSE Ok(Chunks(TableData(matching[1])))

\* a compile that passes over a group of fewer than four elements
RECURSIVE CompileFromSkipping(_, _)
CompileFromSkipping(flag_data_set, flags) ==
    IF flag_data_set = <<>> THEN Ok(flags)
    ELSE LET flag_data == Head(flag_data_set)
         IN  IF Len(flag_data) # 4
             THEN CompileFromSkipping(Tail(flag_data_set), flags)
             ELSE CompileFromSkipping(Tail(flag_data_set),
                      Put(flags, flag_data[1],
                          [short |-> flag_data[2],
                           data_type |-> flag_data[3],
                           description |-> flag_data[4]]))

\* a compile that keeps the first record of a name
RECURSIVE CompileFromFirstWins(_, _)
CompileFromFirstWins(flag_data_set, flags) ==
    IF flag_data_set = <<>> THEN Ok(flags)
    ELSE LET flag_data == Head(flag_data_set)
         IN  IF Len(flag_data) # 4 THEN Raise("ValueError")
             ELSE CompileFromFirstWins(Tail(flag_data_set),
                      IF flag_data[1] \in DOMAIN flags THEN flags
                      ELSE Put(flags, flag_data[1],
                               [short |-> flag_data[2],
                                data_type |-> flag_data[3],
                                description |-> flag_data[4]]))

\* lines 212-217: the loop of _compile_flag_table; unpacking a group that
\* has not four elements raises ValueError
RECURSIVE CompileFrom(_, _)
CompileFrom(flag_data_set, flags) ==
    IF flag_data_set = <<>> THEN Ok(flags)
    ELSE LET flag_data == Head(flag_data_set)
         IN  IF Len(flag_data) # 4 THEN Raise("ValueError")
             ELSE CompileFrom(Tail(flag_data_set),
                      Put(flags, flag_data[1],
                          [short |-> flag_data[2],
                           data_type |-> flag_data[3],
                           description |-> flag_data[4]]))

_compile_flag_table(flag_data_set) == CompileFrom(flag_data_set, EmptyMap)

-----------------------------------------------------------------------------
(* The pages the help site may answer with *)

Th(text) == [tag |-> "th", colspan |-> FALSE, text |-> text]
Td(text) == [tag |-> "td", colspan |-> FALSE, text |-> text]

HeaderCells ==
    <<Th(Marker), Th(<<"Argument", " ", "types">>), Th(<<"Properties">>)>>

PageTranslate ==
    [body |-> TRUE,
     tables |-> << HeaderCells \o
         <<Td(<<"translate", "(", "t", ")">>), Td(<<"distance">>),
           Td(<<"\n", "linear", " ", "distance", " ", "value", "\n">>)>> >>]

\* a table without the marker, then two tables that hold it: the first of
\* them describes rotate, the second translate
PageRotate ==
    [body |-> TRUE,
     tables |-> << <<Td(<<"Synopsis">>)>>,
         HeaderCells \o
         <<Td(<<"rotate", "(", "r", ")">>), Td(<<"angle">>),
           [tag |-> "td", colspan |-> TRUE, text |-> <<"divider">>],
           Td(<<"rotation", "\n", "angle">>), Td(<<>>)>>,
         HeaderCells \o
         <<Td(<<"translate", "(", "t", ")">>), Td(<<"distance">>),
           Td(<<"linear", " ", "distance", " ", "value">>)>> >>]

PageNoFlagTable ==
    [body |-> TRUE, tables |-> << <<Td(<<"Synopsis">>)>> >>]

PageShortRow ==
    [body |-> TRUE,
     tables |-> << HeaderCells \o
         <<Td(<<"query">>), Td(<<"boolean">>), Td(<<"query", " ", "mode">>)>> >>]

Pages == {PageTranslate, PageRotate, PageNoFlagTable, PageShortRow}

\* requests.get (line 76) either raises or answers with a page
Response(page) == [raises |-> FALSE, page |-> page]
ConnectionFailure ==
    [raises |-> TRUE, page |-> [body |-> FALSE, tables |-> <<>>]]
FetchOutcomes == {Response(page) : page \in Pages} \cup {ConnectionFailure}

-----------------------------------------------------------------------------
(* scrape_command: the decorated method *)

\* lines 75-81, the undecorated body, run on what requests.get gives
ScrapeBody(outcome) ==
    IF outcome.raises THEN Raise("ConnectionError")
    ELSE LET raw_flag_table == _parse_flag_table(outcome.page)
         IN  IF raw_flag_table.exc # "none" THEN raw_flag_table
             ELSE _compile_flag_table(raw_flag_table.val)

\* cache.KeyMemoized.__call__: the key is the URL argument.  The result of
\* a call is [cache, exc, ret, fetched]: the dict afterwards, the exception
\* raised or "none", the value returned, and whether the body ran.
KeyMemoized(c, key, outcome) ==
    IF key \in DOMAIN c
    THEN [cache |-> c, exc |-> "none", ret |-> c[key], fetched |-> FALSE]
    ELSE LET r == ScrapeBody(outcome)
         IN  IF r.exc = "none"
             THEN [cache |-> Put(c, key, r.val), exc |-> "none",
                   ret |-> r.val, fetched |-> TRUE]
             ELSE [cache |-> c, exc |-> r.exc, ret |-> r.val,
                   fetched |-> TRUE]

\* the method without its @KeyMemoized line: every call runs the body
Undecorated(c, key, outcome) ==
    LET r == ScrapeBody(outcome)
    IN  [cache |-> c, exc |-> r.exc, ret |-> r.val, fetched |-> TRUE]

\* lines 67-81
scrape_command(c, maya_command_url, outcome) ==
    KeyMemoized(c, maya_command_url, outcome)

-----------------------------------------------------------------------------
(* The cache file: json.dumps, json.load *)

Urls == {_build_url(v, c) : v \in Versions, c \in Commands}

\* the URLs in the order sorted() gives them
UrlsSorted ==
    <<_build_url("2017", "ls"), _build_url("2017", "mv"),
      _build_url("2018", "ls"), _build_url("2018", "mv")>>

\* A file is [exists, entries, closed]: the <<key, value>> members written so
\* far and whether the closing brace of the JSON object follows them.
NoFile == [exists |-> FALSE, entries |-> <<>>, closed |-> FALSE]
EmptyFile == [exists |-> TRUE, entries |-> <<>>, closed |-> FALSE]

\* a dump that loses the last member of the object
JsonDumpsTruncated(c) ==
    LET keys == SelectSeq(UrlsSorted, LAMBDA u : u \in DOMAIN c)
    IN  [n \in 1..(Len(keys) - 1) |-> <<keys[n], c[keys[n]]>>]

\* line 163: json.dumps(cache, ensure_ascii=False, indent=4, sort_keys=True)
JsonDumps(c) ==
    LET keys == SelectSeq(UrlsSorted, LAMBDA u : u \in DOMAIN c)
    IN  [n \in DOMAIN keys |-> <<keys[n], c[keys[n]]>>]

RECURSIVE ObjectOf(_, _)
ObjectOf(entries, acc) ==
    IF entries = <<>> THEN acc
    ELSE ObjectOf(Tail(entries), Put(acc, Head(entries)[1], Head(entries)[2]))

\* line 129: json.load(data_file)
JsonLoad(f) ==
    IF f.closed THEN Ok(ObjectOf(f.entries, EmptyMap)) ELSE Raise("ValueError")

\* a load that also empties the memo dict when the file is missing
ReadTempfileClearing(f, c) ==
    IF ~f.exists THEN EmptyMap
    ELSE LET data == JsonLoad(f)
         IN  IF data.exc = "ValueError" THEN EmptyMap ELSE data.val

\* a load that treats malformed JSON like a missing file
ReadTempfileKeeping(f, c) ==
    IF ~f.exists THEN c
    ELSE LET data == JsonLoad(f)
         IN  IF data.exc = "ValueError" THEN c ELSE data.val

\* a load that reads the file and drops what it read
ReadTempfileNoLoad(f, c) ==
    IF ~f.exists THEN c
    ELSE LET data == JsonLoad(f)
         IN  IF data.exc = "ValueError" THEN EmptyMap ELSE c

\* lines 126-135: the memo dict _read_tempfile leaves
ReadTempfileCache(f, c) ==
    IF ~f.exists THEN c                         \* IOError: only a message
    ELSE LET data == JsonLoad(f)
         IN  IF data.exc = "ValueError" THEN EmptyMap ELSE data.val

-----------------------------------------------------------------------------
(* MAYA_CMDS: a list of command names, or one name as a string *)

AsString(name) == [type |-> "str", str |-> name, list |-> <<>>]
AsList(names) == [type |-> "list", str |-> "", list |-> names]

CommandLists == UNION {[1..n -> Commands] : n \in 0..MaxCmds}
CommandArgs == {AsList(l) : l \in CommandLists} \cup {AsString(c) : c \in Commands}

\* iterating a Python string gives its characters
Characters(name) ==
    IF name = "ls" THEN <<"l", "s">>
    ELSE IF name = "mv" THEN <<"m", "v">> ELSE <<name>>

IterateAnything(commands) ==
    IF commands.type = "str" THEN Characters(commands.str) ELSE commands.list

\* lines 151-152: what the for loop of _store_commands iterates over
Normalized(commands) ==
    IF commands.type = "str" THEN <<commands.str>> ELSE commands.list


-----------------------------------------------------------------------------
(* build_command_stub *)

\* line 110: lut = {'boolean': 'bool', 'string': 'str', 'int': 'int'}
LutKeys == {<<"boolean">>, <<"string">>, <<"int">>}
Lut(data_type) ==
    IF data_type = <<"boolean">> THEN "bool"
    ELSE IF data_type = <<"string">> THEN "str" ELSE "int"

\* ', '.join(kwargs)
RECURSIVE Join(_)
Join(items) ==
    IF items = <<>> THEN <<>>
    ELSE IF Len(items) = 1 THEN items[1]
    ELSE items[1] \o <<",", " ">> \o Join(Tail(items))

\* lines 115-118: the FLAG=TYPE text of one flag
StubKwarg(k, v, shortname, combined) ==
    LET flag == IF ~shortname THEN k ELSE v.short
    IN  (IF combined THEN flag \o <<"(">> \o v.short \o <<")">> ELSE flag)
            \o <<"=", Lut(v.data_type)>>

\* lines 113-120, with shortname as line 112 left it; order is the order in
\* which iteritems gives the flags
StubFrom(signatures, command, shortname, combined, order) ==
    IF \E n \in DOMAIN order : signatures[order[n]].data_type \notin LutKeys
    THEN Raise("KeyError")
    ELSE Ok(<<"def", " ", command, "(", "*args", ",", " ">>
            \o Join([n \in DOMAIN order |->
                       StubKwarg(order[n], signatures[order[n]],
                                 shortname, combined)])
            \o <<")", ":", "\n", "\t", "pass">>)

\* a stub builder without line 112: shortname is not overridden
StubKeepingShortname(signatures, command, shortname, combined, order) ==
    StubFrom(signatures, command, shortname, combined, order)

\* lines 101-120
build_command_stub(signatures, command, shortname, combined, order) ==
    StubFrom(signatures, command, IF combined THEN FALSE ELSE shortname,
             combined, order)

\* the orders in which a dict may give its keys
Orders(keys) ==
    {order \in [1..Cardinality(keys) -> keys] : Range(order) = keys}

-----------------------------------------------------------------------------
(* The parser and the stub builder on their own: lab holds the page given, *)
(* what _parse_flag_table and _compile_flag_table made of it, and the stub *)
(* built from the compiled signature.                                      *)

\* most td cells of the flag table of a generated page
MaxCells == 4

NoPage == [body |-> FALSE, tables |-> <<>>]
NoResult == [exc |-> "none", val |-> <<>>]
NoStubArgs ==
    [command |-> "", shortname |-> FALSE, combined |-> FALSE, order |-> <<>>]

LabOff ==
    [phase |-> "off", doc |-> NoPage, raw |-> NoResult, flags |-> NoResult,
     args |-> NoStubArgs, stub |-> NoResult]

\* the cells a generated flag table is made of
CellKinds ==
    {Td(<<"translate", "(", "t", ")">>),
     Td(<<"distance">>),
     Td(<<"\n", "linear", "\n", "step", " ">>),
     Td(<<" ", "\n">>),
     [tag |-> "td", colspan |-> TRUE, text |-> <<"Flags">>],
     Td(<<"a", ")", "(", "b", ")", "c">>),
     Td(<<"f", "(", "a", ")", "(", "b", ")">>),
     Th(<<"Properties">>)}

CellPages ==
    {[body |-> TRUE, tables |-> << <<Th(Marker)>> \o cells >>] :
        cells \in UNION {[1..n -> CellKinds] : n \in 0..MaxCells}}

\* pages of one or two flags whose types are in or out of the lut
DataTypes == {<<"boolean">>, <<"string">>, <<"int">>, <<"distance">>}

FlagRow(long, short, data_type) ==
    <<Td(<<long, "(", short, ")">>), Td(data_type),
      Td(<<"the", " ", long>>)>>

StubPages ==
    {[body |-> TRUE,
      tables |-> << HeaderCells \o FlagRow("translate", "t", a) >>] :
        a \in DataTypes}
    \cup
    {[body |-> TRUE,
      tables |-> << HeaderCells \o FlagRow("translate", "t", a)
                        \o FlagRow("rotate", "r", b) >>] :
        a \in DataTypes, b \in DataTypes}

\* longest text of a generated cell, in tokens
MaxText == 4

TextTokens == {"a", "(", ")", " ", "\n"}

\* pages whose flag table has one td cell, of any text
TextPages ==
    {[body |-> TRUE, tables |-> << <<Th(Marker), Td(text)>> >>] :
        text \in UNION {[1..n -> TextTokens] : n \in 0..MaxText}}

ParsePages == CellPages \cup TextPages \cup StubPages \cup Pages

-----------------------------------------------------------------------------
(* The process: one thread of control, one instance held by the caller *)

NoSave == [valid |-> FALSE, cache |-> EmptyMap]
NoArgs == AsList(<<>>)

ProcessInit ==
    /\ file = NoFile
    /\ tmp = NoFile
    /\ cache = EmptyMap
    /\ alive = FALSE
    /\ maya_version = "2017"
    /\ kwargs = NoArgs
    /\ command_signatures = EmptyMap
    /\ pc = "idle"
    /\ idx = 0
    /\ exc = "none"
    /\ op = "start"
    /\ fetchLog = <<>>
    /\ runStored = {}
    /\ fileAtRunStart = NoFile
    /\ cacheAtRunStart = EmptyMap
    /\ saved = NoSave
    /\ resetState = "none"

Init == ProcessInit /\ lab = LabOff

\* the list the loop of _store_commands walks, and the URL of its n-th item
Requested == Normalized(kwargs)
UrlAt(n) == _build_url(maya_version, Requested[n])

\* entering run(): line 61
EnterRun ==
    /\ pc' = "read"
    /\ idx' = 0
    /\ exc' = "none"
    /\ fetchLog' = <<>>
    /\ runStored' = {}
    /\ fileAtRunStart' = file
    /\ cacheAtRunStart' = cache
    /\ resetState' = IF resetState = "pending" THEN "running" ELSE resetState
    /\ UNCHANGED <<file, tmp, cache, saved>>

\* a constructor that gives every instance a memo dict of its own
InitOwnCache(version, commands) ==
    /\ pc = "idle"
    /\ maya_version' = version
    /\ kwargs' = commands
    /\ command_signatures' = EmptyMap
    /\ alive' = FALSE
    /\ op' = "__init__"
    /\ UNCHANGED lab
    /\ pc' = "read"
    /\ idx' = 0
    /\ exc' = "none"
    /\ fetchLog' = <<>>
    /\ runStored' = {}
    /\ fileAtRunStart' = file
    /\ cacheAtRunStart' = cache
    /\ cache' = EmptyMap
    /\ resetState' = IF resetState = "pending" THEN "running" ELSE resetState
    /\ UNCHANGED <<file, tmp, saved>>

\* lines 21-26: Scrape(...) builds an instance and calls run()
__init__(version, commands) ==
    /\ pc = "idle"
    /\ maya_version' = version
    /\ kwargs' = commands
    /\ command_signatures' = EmptyMap
    /\ alive' = FALSE
    /\ op' = "__init__"
    /\ UNCHANGED lab
    /\ EnterRun

\* lines 55-61: run() called again on the instance the caller holds
run ==
    /\ pc = "idle"
    /\ alive
    /\ op' = "run"
    /\ UNCHANGED lab
    /\ EnterRun
    /\ UNCHANGED <<alive, maya_version, kwargs, command_signatures>>

\* lines 122-135, called at line 62
_read_tempfile ==
    /\ pc = "read"
    /\ cache' = ReadTempfileCache(file, cache)
    /\ pc' = "store"
    /\ idx' = 1
    /\ op' = "_read_tempfile"
    /\ UNCHANGED lab
    /\ UNCHANGED <<file, tmp, alive, maya_version, kwargs, command_signatures,
                   exc, fetchLog, runStored, fileAtRunStart, cacheAtRunStart,
                   saved, resetState>>

\* a loop that swallows the failure of a command and goes on to the next
StoreCommandsContinuing ==
    /\ pc = "store"
    /\ idx <= Len(Requested)
    /\ \E outcome \in FetchOutcomes :
         LET maya_command == Requested[idx]
             url == UrlAt(idx)
             call == scrape_command(cache, url, outcome)
         IN  /\ cache' = call.cache
             /\ fetchLog' = IF call.fetched
                            THEN Append(fetchLog, <<url, outcome>>)
                            ELSE fetchLog
             /\ IF call.exc = "none"
                THEN /\ command_signatures' =
                            Put(command_signatures, maya_command, call.ret)
                     /\ runStored' = runStored \cup {maya_command}
                ELSE UNCHANGED <<command_signatures, runStored>>
             /\ idx' = idx + 1
    /\ op' = "scrape_command"
    /\ UNCHANGED lab
    /\ UNCHANGED <<file, tmp, alive, maya_version, kwargs, fileAtRunStart,
                   cacheAtRunStart, saved, resetState, pc, exc>>

\* a loop that, when a command fails, goes on to the save
StoreCommandsSaving ==
    /\ pc = "store"
    /\ idx <= Len(Requested)
    /\ \E outcome \in FetchOutcomes :
         LET maya_command == Requested[idx]
             url == UrlAt(idx)
             call == scrape_command(cache, url, outcome)
         IN  /\ cache' = call.cache
             /\ fetchLog' = IF call.fetched
                            THEN Append(fetchLog, <<url, outcome>>)
                            ELSE fetchLog
             /\ IF call.exc = "none"
                THEN /\ command_signatures' =
                            Put(command_signatures, maya_command, call.ret)
                     /\ runStored' = runStored \cup {maya_command}
                     /\ idx' = idx + 1
                     /\ UNCHANGED <<pc, exc>>
                ELSE /\ idx' = Len(Requested) + 1
                     /\ exc' = call.exc
                     /\ UNCHANGED <<command_signatures, runStored, pc>>
    /\ op' = "scrape_command"
    /\ UNCHANGED lab
    /\ UNCHANGED <<file, tmp, alive, maya_version, kwargs, fileAtRunStart,
                   cacheAtRunStart, saved, resetState>>

\* lines 154-156: one round of the loop of _store_commands
_store_commands ==
    /\ pc = "store"
    /\ idx <= Len(Requested)
    /\ \E outcome \in FetchOutcomes :
         LET maya_command == Requested[idx]
             url == UrlAt(idx)
             call == scrape_command(cache, url, outcome)
         IN  /\ cache' = call.cache
             /\ fetchLog' = IF call.fetched
                            THEN Append(fetchLog, <<url, outcome>>)
                            ELSE fetchLog
             /\ IF call.exc = "none"
                THEN /\ command_signatures' =
                            Put(command_signatures, maya_command, call.ret)
                     /\ runStored' = runStored \cup {maya_command}
                     /\ idx' = idx + 1
                     /\ UNCHANGED <<pc, exc>>
                ELSE /\ pc' = "raised"
                     /\ exc' = call.exc
                     /\ UNCHANGED <<command_signatures, runStored, idx>>
    /\ op' = "scrape_command"
    /\ UNCHANGED lab
    /\ UNCHANGED <<file, tmp, alive, maya_version, kwargs, fileAtRunStart,
                   cacheAtRunStart, saved, resetState>>

\* lines 162-163: the temporary file is created and the JSON text written
WriteTemp ==
    /\ pc = "store"
    /\ idx > Len(Requested)
    /\ tmp' = [exists |-> TRUE, entries |-> JsonDumps(cache), closed |-> TRUE]
    /\ pc' = "close"
    /\ op' = "write"
    /\ UNCHANGED lab
    /\ UNCHANGED <<file, cache, alive, maya_version, kwargs,
                   command_signatures, idx, exc, fetchLog, runStored,
                   fileAtRunStart, cacheAtRunStart, saved, resetState>>

\* line 165: f.close()
CloseTemp ==
    /\ pc = "close"
    /\ pc' = "copy"
    /\ op' = "close"
    /\ UNCHANGED lab
    /\ UNCHANGED <<file, tmp, cache, alive, maya_version, kwargs,
                   command_signatures, idx, exc, fetchLog, runStored,
                   fileAtRunStart, cacheAtRunStart, saved, resetState>>

\* line 166, shutil.copy: the destination is opened for writing, which
\* creates it or truncates it
CopyOpen ==
    /\ pc = "copy"
    /\ file' = EmptyFile
    /\ saved' = NoSave
    /\ pc' = "copying"
    /\ op' = "copy_open"
    /\ UNCHANGED lab
    /\ UNCHANGED <<tmp, cache, alive, maya_version, kwargs,
                   command_signatures, idx, exc, fetchLog, runStored,
                   fileAtRunStart, cacheAtRunStart, resetState>>

\* line 166, shutil.copy: the next piece of the text reaches the destination
CopyChunk ==
    /\ pc = "copying"
    /\ Len(file.entries) < Len(tmp.entries)
    /\ file' = [file EXCEPT
                  !.entries = Append(@, tmp.entries[Len(file.entries) + 1])]
    /\ op' = "copy_chunk"
    /\ UNCHANGED lab
    /\ UNCHANGED <<tmp, cache, alive, maya_version, kwargs,
                   command_signatures, pc, idx, exc, fetchLog, runStored,
                   fileAtRunStart, cacheAtRunStart, saved, resetState>>

\* line 166, shutil.copy: the last piece is written and the copy returns
CopyClose ==
    /\ pc = "copying"
    /\ Len(file.entries) = Len(tmp.entries)
    /\ file' = [file EXCEPT !.closed = tmp.closed]
    /\ saved' = [valid |-> TRUE, cache |-> cache]
    /\ pc' = "done"
    /\ op' = "copy_close"
    /\ UNCHANGED lab
    /\ UNCHANGED <<tmp, cache, alive, maya_version, kwargs,
                   command_signatures, idx, exc, fetchLog, runStored,
                   fileAtRunStart, cacheAtRunStart, resetState>>

\* line 65, or the exception leaving run(): control is back at the caller,
\* who holds the instance unless its constructor raised
Return ==
    /\ pc \in {"done", "raised"}
    /\ pc' = "idle"
    /\ alive' = (alive \/ pc = "done")
    /\ IF alive'
       THEN UNCHANGED <<maya_version, kwargs, command_signatures>>
       ELSE /\ maya_version' = "2017"
            /\ kwargs' = NoArgs
            /\ command_signatures' = EmptyMap
    /\ tmp' = NoFile
    /\ idx' = 0
    /\ exc' = "none"
    /\ fetchLog' = <<>>
    /\ runStored' = {}
    /\ fileAtRunStart' = NoFile
    /\ cacheAtRunStart' = EmptyMap
    /\ resetState' = IF resetState = "running" THEN "past" ELSE resetState
    /\ op' = IF pc = "done" THEN "return" ELSE "raise"
    /\ UNCHANGED lab
    /\ UNCHANGED <<file, cache, saved>>

\* a reset that also empties the memo dict
ResetCacheClearing ==
    /\ pc = "idle"
    /\ alive
    /\ file' = EmptyFile
    /\ cache' = EmptyMap
    /\ saved' = NoSave
    /\ resetState' = "pending"
    /\ op' = "reset_cache"
    /\ UNCHANGED lab
    /\ UNCHANGED <<tmp, alive, maya_version, kwargs, command_signatures, pc,
                   idx, exc, fetchLog, runStored, fileAtRunStart,
                   cacheAtRunStart>>

\* lines 83-89: open(self._CACHE_FILE, 'w').close()
reset_cache ==
    /\ pc = "idle"
    /\ alive
    /\ file' = EmptyFile
    /\ saved' = NoSave
    /\ resetState' = "pending"
    /\ op' = "reset_cache"
    /\ UNCHANGED lab
    /\ UNCHANGED <<tmp, cache, alive, maya_version, kwargs,
                   command_signatures, pc, idx, exc, fetchLog, runStored,
                   fileAtRunStart, cacheAtRunStart>>

\* the process stops, at any point: what was in memory is gone, the file
\* stays as it is, and the next process starts with an empty memo dict
ProcessStops ==
    /\ op # "start"
    /\ cache' = EmptyMap
    /\ alive' = FALSE
    /\ maya_version' = "2017"
    /\ kwargs' = NoArgs
    /\ command_signatures' = EmptyMap
    /\ pc' = "idle"
    /\ idx' = 0
    /\ exc' = "none"
    /\ tmp' = NoFile
    /\ fetchLog' = <<>>
    /\ runStored' = {}
    /\ fileAtRunStart' = NoFile
    /\ cacheAtRunStart' = EmptyMap
    /\ resetState' = "none"
    /\ op' = "start"
    /\ UNCHANGED lab
    /\ UNCHANGED <<file, saved>>

Next ==
    \/ \E version \in Versions, commands \in CommandArgs :
           __init__(version, commands)
    \/ run
    \/ _read_tempfile
    \/ _store_commands
    \/ WriteTemp
    \/ CloseTemp
    \/ CopyOpen
    \/ CopyChunk
    \/ CopyClose
    \/ Return
    \/ reset_cache
    \/ ProcessStops

Spec == Init /\ [][Next]_vars

-----------------------------------------------------------------------------
(* The parser specification *)

ParserInit ==
    /\ ProcessInit
    /\ lab \in {[LabOff EXCEPT !.phase = "page", !.doc = page] :
                   page \in ParsePages}

\* lines 180-202 on the page given
ParseFlagTable ==
    /\ lab.phase = "page"
    /\ lab' = [lab EXCEPT !.phase = "parsed",
                          !.raw = _parse_flag_table(lab.doc)]
    /\ UNCHANGED processVars

\* lines 204-217 on what the parser returned (line 80)
CompileFlagTable ==
    /\ lab.phase = "parsed"
    /\ lab.raw.exc = "none"
    /\ lab' = [lab EXCEPT !.phase = "compiled",
                          !.flags = _compile_flag_table(lab.raw.val)]
    /\ UNCHANGED processVars

\* lines 101-120 on the compiled signature, stored under the command name
BuildCommandStub(command, shortname, combined) ==
    /\ lab.phase = "compiled"
    /\ lab.flags.exc = "none"
    /\ \E order \in Orders(DOMAIN lab.flags.val) :
         lab' = [lab EXCEPT
                   !.phase = "stubbed",
                   !.args = [command |-> command, shortname |-> shortname,
                             combined |-> combined, order |-> order],
                   !.stub = build_command_stub(lab.flags.val, command,
                                shortname, combined, order)]
    /\ UNCHANGED processVars

ParserNext ==
    \/ ParseFlagTable
    \/ CompileFlagTable
    \/ \E command \in {"move"}, shortname \in BOOLEAN, combined \in BOOLEAN :
           BuildCommandStub(command, shortname, combined)

ParserSpec == ParserInit /\ [][ParserNext]_vars

-----------------------------------------------------------------------------
(* Properties *)

RECURSIVE Flatten(_)
Flatten(groups) ==
    IF groups = <<>> THEN <<>> ELSE Head(groups) \o Flatten(Tail(groups))

FetchedUrls == {fetchLog[n][1] : n \in DOMAIN fetchLog}

\* C1: a memoized call whose URL is already a key of the memo dict returns
\* the stored value, leaves the dict alone and fetches nothing; and no URL
\* is fetched twice in one batch.
C1_AtMostOnceFetch ==
    /\ [][(op' = "scrape_command" /\ pc = "store" /\ idx <= Len(Requested)
             /\ UrlAt(idx) \in DOMAIN cache)
          => /\ fetchLog' = fetchLog
             /\ cache' = cache
             /\ pc' = "store"
             /\ command_signatures'[Requested[idx]] = cache[UrlAt(idx)]]_vars
    /\ [](\A m, n \in DOMAIN fetchLog :
             fetchLog[m][1] = fetchLog[n][1] => m = n)

\* a batch naming one command twice has fetched it once and stored the same
\* value for both calls
C1_Witness ==
    /\ op = "scrape_command"
    /\ idx = 3
    /\ Requested[1] = Requested[2]
    /\ Len(fetchLog) = 1
    /\ command_signatures[Requested[2]] = ScrapeBody(fetchLog[1][2]).val

\* C2 as claimed: after a load that found the file missing or malformed the
\* memo dict is empty
C2_LoadAlwaysEmpties ==
    (op = "_read_tempfile" /\ (~file.exists \/ ~file.closed))
        => (pc = "store" /\ cache = EmptyMap)

\* C2 amended: the load never fails; a malformed file empties the memo
\* dict, a missing file leaves the memo dict as it was
C2_LoadMissingKeeps ==
    [][op' = "_read_tempfile"
       => /\ pc' = "store"
          /\ exc' = "none"
          /\ (~file.exists => cache' = cache)
          /\ ((file.exists /\ ~file.closed) => cache' = EmptyMap)]_vars

\* a load found no file and left entries of an earlier batch in memory
C2_Witness ==
    /\ op = "_read_tempfile"
    /\ ~file.exists
    /\ cache # EmptyMap
    /\ cache = cacheAtRunStart

\* C3 as claimed: at every step of the save the cache file holds the
\* complete previous contents or the complete new contents
C3_CrashSafe ==
    pc \in {"close", "copy", "copying", "done"}
        => \/ file = fileAtRunStart
           \/ file = [exists |-> TRUE, entries |-> JsonDumps(cache),
                      closed |-> TRUE]

C5_StaleHonoured ==
    (pc = "done" /\ resetState = "running")
        => \A n \in DOMAIN Requested :
               UrlAt(n) \in DOMAIN cacheAtRunStart
                   => /\ UrlAt(n) \notin FetchedUrls
                      /\ command_signatures[Requested[n]] =
                             cacheAtRunStart[UrlAt(n)]

\* C5 amended: the load of the first run() after reset_cache finds the
\* emptied file and empties the memo dict, so the run holds no entry it did
\* not fetch itself and returns a freshly fetched signature for every
\* requested command
C5_RefetchedAfterReset ==
    (resetState = "running" /\ pc # "read")
        => /\ \A u \in DOMAIN cache : u \in FetchedUrls
           /\ pc = "done"
                => \A n \in DOMAIN Requested :
                       \E m \in DOMAIN fetchLog :
                           /\ fetchLog[m][1] = UrlAt(n)
                           /\ command_signatures[Requested[n]] =
                                  ScrapeBody(fetchLog[m][2]).val

\* a run after a reset fetched a command again and returned a signature
\* other than the one held before the reset
C5_Witness ==
    /\ pc = "done"
    /\ resetState = "running"
    /\ \E n \in DOMAIN Requested :
           /\ UrlAt(n) \in DOMAIN cacheAtRunStart
           /\ cacheAtRunStart[UrlAt(n)] # command_signatures[Requested[n]]

\* C6: reset_cache leaves the cache file empty and changes neither the memo
\* dict nor command_signatures
C6_ResetOnlyFile ==
    [][op' = "reset_cache"
       => /\ file' = EmptyFile
          /\ cache' = cache
          /\ command_signatures' = command_signatures]_vars

\* reset_cache has run with entries in memory and results in the instance
C6_Witness ==
    /\ op = "reset_cache"
    /\ file = EmptyFile
    /\ cache # EmptyMap
    /\ command_signatures # EmptyMap

C8_LoadBeforeSaveAfter ==
    pc = "done"
        => /\ file.exists
           /\ JsonLoad(file) = Ok(cache)
           /\ fileAtRunStart.closed
                => \A n \in DOMAIN fileAtRunStart.entries :
                       fileAtRunStart.entries[n][1] \in DOMAIN cache
           /\ \A n \in DOMAIN Requested : UrlAt(n) \in DOMAIN cache

\* a run that started from a well-formed file with an entry completed and
\* added the URL of a requested command to it
C8_Witness ==
    /\ pc = "done"
    /\ fileAtRunStart.closed
    /\ fileAtRunStart.entries # <<>>
    /\ cacheAtRunStart = EmptyMap
    /\ \E n \in DOMAIN Requested :
           \A m \in DOMAIN fileAtRunStart.entries :
               fileAtRunStart.entries[m][1] # UrlAt(n)

\* C9: a fetch or parse that fails is the last of its run: run() is left
\* with the exception, the commands before the failing one are in the
\* result mapping, and nothing after it was fetched or stored by this run
C9_FailFast ==
    /\ \A n \in DOMAIN fetchLog :
           ScrapeBody(fetchLog[n][2]).exc # "none"
               => /\ pc = "raised"
                  /\ n = Len(fetchLog)
                  /\ exc = ScrapeBody(fetchLog[n][2]).exc
                  /\ fetchLog[n][1] = UrlAt(idx)
    /\ pc = "raised"
         => /\ exc # "none"
            /\ runStored = {Requested[j] : j \in 1..(idx - 1)}
            /\ \A j \in 1..(idx - 1) :
                   Requested[j] \in DOMAIN command_signatures
            /\ FetchedUrls \subseteq {UrlAt(j) : j \in 1..idx}

\* the first of two different commands failed to parse: the second was
\* neither fetched nor stored
C9_Witness ==
    /\ pc = "raised"
    /\ exc = "IndexError"
    /\ idx = 1
    /\ Len(Requested) = 2
    /\ Requested[1] # Requested[2]
    /\ UrlAt(2) \notin FetchedUrls
    /\ Requested[2] \notin DOMAIN command_signatures

\* C10: when run() completes, every requested command name has an entry in
\* the result mapping, equal to the memoized result for its URL, and a
\* string is one command name
C10_ResultMapping ==
    pc = "done"
        => LET names == IF kwargs.type = "str"
                        THEN {kwargs.str}
                        ELSE Range(kwargs.list)
           IN  /\ runStored = names
               /\ \A name \in names :
                    LET url == "http://help.autodesk.com/cloudhelp/"
                                   \o maya_version
                                   \o "/ENU/Maya-Tech-Docs/CommandsPython/"
                                   \o name \o ".html"
                    IN  /\ name \in DOMAIN command_signatures
                        /\ url \in DOMAIN cache
                        /\ command_signatures[name] = cache[url]
                        /\ \A m \in DOMAIN fetchLog :
                               fetchLog[m][1] = url
                                   => cache[url] =
                                          ScrapeBody(fetchLog[m][2]).val

\* a run given one command as a string completed
C10_Witness ==
    /\ pc = "done"
    /\ kwargs.type = "str"
    /\ DOMAIN command_signatures = {kwargs.str}

\* C11 as claimed: in a process that never called reset_cache, a URL that
\* an earlier instance left in the memo dict is not fetched by an instance
\* created later (stated for a cache file that is missing or well-formed)
C11_SharedHitAlways ==
    [][(op' = "scrape_command" /\ pc = "store" /\ idx <= Len(Requested)
          /\ ~alive /\ resetState = "none"
          /\ (fileAtRunStart.exists => fileAtRunStart.closed)
          /\ UrlAt(idx) \in DOMAIN cacheAtRunStart)
       => fetchLog' = fetchLog]_vars

\* C11 amended: the memo dict is one per process, and every run starts by
\* loading the cache file.  A URL an earlier instance resolved is a hit for
\* a later instance when no cache file exists, or when the well-formed file
\* holds it, which it does after every completed run; a URL that is not in
\* the existing file and was not fetched by this run is fetched, whatever
\* earlier instances resolved
C11_SharedUnlessLoaded ==
    /\ [][(op' = "scrape_command" /\ pc = "store" /\ idx <= Len(Requested)
             /\ ~alive)
          => LET url == UrlAt(idx)
                 inFile == \E n \in DOMAIN fileAtRunStart.entries :
                               fileAtRunStart.entries[n][1] = url
             IN  /\ (~fileAtRunStart.exists /\ url \in DOMAIN cacheAtRunStart)
                       => /\ fetchLog' = fetchLog
                          /\ command_signatures'[Requested[idx]] =
                                 cacheAtRunStart[url]
                 /\ (fileAtRunStart.closed /\ inFile)
                       => /\ fetchLog' = fetchLog
                          /\ \E n \in DOMAIN fileAtRunStart.entries :
                                 fileAtRunStart.entries[n] =
                                     <<url, command_signatures'[Requested[idx]]>>
                 /\ (fileAtRunStart.exists
                       /\ ~(fileAtRunStart.closed /\ inFile)
                       /\ url \notin FetchedUrls)
                       => /\ Len(fetchLog') = Len(fetchLog) + 1
                          /\ fetchLog'[Len(fetchLog')][1] = url]_vars
    /\ [](pc = "done"
            => /\ file.closed
               /\ \A n \in DOMAIN Requested :
                      \E m \in DOMAIN file.entries :
                          file.entries[m] = <<UrlAt(n), cache[UrlAt(n)]>>)

\* with no cache file, an instance created later got a signature an earlier
\* instance had resolved, and fetched nothing
C11_Witness ==
    /\ op = "scrape_command"
    /\ pc = "store"
    /\ ~alive
    /\ ~fileAtRunStart.exists
    /\ idx = 2
    /\ fetchLog = <<>>
    /\ UrlAt(1) \in DOMAIN cacheAtRunStart
    /\ command_signatures[Requested[1]] = cacheAtRunStart[UrlAt(1)]

\* the page a fetch answered with was parsed into a number of elements that
\* is not a multiple of 4
ShortPage(outcome) ==
    /\ ~outcome.raises
    /\ _parse_flag_table(outcome.page).exc = "none"
    /\ Len(Flatten(_parse_flag_table(outcome.page).val)) % 4 # 0

\* C13 as claimed: the call that fetched such a page does not raise, a
\* record for its URL is in the memo dict and the batch goes on
C13_SilentTruncation ==
    \A n \in DOMAIN fetchLog :
        ShortPage(fetchLog[n][2])
            => /\ ~(pc = "raised" /\ n = Len(fetchLog))
               /\ fetchLog[n][1] \in DOMAIN cache

\* C13 amended: the parser returns the short last group without complaint,
\* but _compile_flag_table raises ValueError on it: the call raises, nothing
\* is memoized or stored for the command, and the batch ends there
C13_ShortGroupRaises ==
    \A n \in DOMAIN fetchLog :
        ShortPage(fetchLog[n][2])
            => LET groups == _parse_flag_table(fetchLog[n][2].page).val
               IN  /\ Len(groups[Len(groups)]) \in 1..3
                   /\ pc = "raised"
                   /\ exc = "ValueError"
                   /\ n = Len(fetchLog)
                   /\ fetchLog[n][1] = UrlAt(idx)
                   /\ fetchLog[n][1] \notin DOMAIN cache
                   /\ Requested[idx] \notin runStored

\* the second command of a batch got a page of three elements: the run was
\* left with ValueError after the first command had been stored
C13_Witness ==
    /\ pc = "raised"
    /\ exc = "ValueError"
    /\ idx = 2
    /\ Len(fetchLog) = 2
    /\ ShortPage(fetchLog[2][2])
    /\ Requested[1] \in runStored
    /\ UrlAt(2) \notin DOMAIN cache

\* the tables of a page that hold the marker, in document order
MarkerTables(page) ==
    SelectSeq(page.tables,
              LAMBDA table : \E n \in DOMAIN table :
                                 Contains(table[n].text, Marker))

\* C16: a fetched page is parsed from its first table holding the marker;
\* a page with no such table makes the call fail with IndexError, and no
\* entry for the URL is stored
C16_FirstMarkerTable ==
    \A n \in DOMAIN fetchLog :
        LET url == fetchLog[n][1]
            outcome == fetchLog[n][2]
            tables == MarkerTables(outcome.page)
        IN  ~outcome.raises
                => IF tables = <<>>
                   THEN /\ pc = "raised"
                        /\ exc = "IndexError"
                        /\ n = Len(fetchLog)
                        /\ url \notin DOMAIN cache
                        /\ Requested[idx] \notin runStored
                   ELSE LET first ==
                                [body |-> TRUE, tables |-> <<tables[1]>>]
                        IN  \/ /\ pc = "raised"
                               /\ n = Len(fetchLog)
                               /\ exc = ScrapeBody(Response(first)).exc
                               /\ exc # "none"
                            \/ /\ url \in DOMAIN cache
                               /\ ScrapeBody(Response(first)) = Ok(cache[url])

\* a page with two marker tables was fetched and the flags of its first
\* table stored; then a page with no marker table ended the run with
\* nothing stored for its URL
C16_Witness ==
    /\ pc = "raised"
    /\ exc = "IndexError"
    /\ Len(fetchLog) = 2
    /\ Len(MarkerTables(fetchLog[1][2].page)) = 2
    /\ DOMAIN cache[fetchLog[1][1]] = {<<"rotate">>}
    /\ MarkerTables(fetchLog[2][2].page) = <<>>
    /\ fetchLog[2][1] \notin DOMAIN cache

\* the run in progress has had a fetch or parse fail
Aborted ==
    \E n \in DOMAIN fetchLog : ScrapeBody(fetchLog[n][2]).exc # "none"

FileKeys(f) == {f.entries[n][1] : n \in DOMAIN f.entries}

\* C20: once a command of a run has failed, the run saves nothing: the
\* cache file is what it was when the run started and no temporary file is
\* written, the run only returns to its caller, and the memo dict keeps an
\* entry for every command before the failing one; a later load that finds
\* a cache file leaves none of the entries the file does not hold
C20_AbortPersistsNothing ==
    /\ [](Aborted
            => /\ pc = "raised"
               /\ file = fileAtRunStart
               /\ tmp = NoFile
               /\ \A j \in 1..(idx - 1) :
                      /\ UrlAt(j) \in DOMAIN cache
                      /\ \A m \in DOMAIN fetchLog :
                             fetchLog[m][1] = UrlAt(j)
                                 => cache[UrlAt(j)] =
                                        ScrapeBody(fetchLog[m][2]).val)
    /\ [][pc = "raised"
          => /\ op' \in {"raise", "start"}
             /\ file' = file
             /\ saved' = saved
             /\ op' = "raise" => cache' = cache]_vars
    /\ [][(op' = "_read_tempfile" /\ file.exists)
          => \A k \in DOMAIN cache :
                 k \notin FileKeys(file) => k \notin DOMAIN cache']_vars

\* a batch of two commands fetched the first, which the existing cache file
\* does not hold, and failed to connect for the second: the file is
\* untouched and the first is in the memo dict only
C20_Witness ==
    /\ pc = "raised"
    /\ exc = "ConnectionError"
    /\ idx = 2
    /\ Len(fetchLog) = 2
    /\ file.closed
    /\ file = fileAtRunStart
    /\ UrlAt(1) \in DOMAIN cache
    /\ UrlAt(1) \notin FileKeys(file)

-----------------------------------------------------------------------------
(* Properties of the parser and the stub builder (ParserSpec) *)

Parsed == lab.phase \in {"parsed", "compiled", "stubbed"} /\ lab.raw.exc = "none"
Compiled == lab.phase \in {"compiled", "stubbed"}
Stubbed == lab.phase = "stubbed"

\* a cell text without the whitespace around it, its newlines as spaces
Trimmed(text) ==
    LET inked == {n \in DOMAIN text : text[n] \notin {" ", "\n", "\t"}}
    IN  IF inked = {} THEN <<>>
        ELSE SubSeq(text,
                    CHOOSE n \in inked : \A m \in inked : n <= m,
                    CHOOSE n \in inked : \A m \in inked : m <= n)
OneLine(text) == [n \in DOMAIN text |-> IF text[n] = "\n" THEN " " ELSE text[n]]
CellText(cell) == OneLine(Trimmed(cell.text))

OneParen(text) == Cardinality({n \in DOMAIN text : text[n] = "("}) = 1
NoSpace(text) == \A n \in DOMAIN text : text[n] # " "
ParenAt(text) == CHOOSE n \in DOMAIN text : text[n] = "("
Before(text) == SubSeq(text, 1, ParenAt(text) - 1)
After(text) == SubSeq(text, ParenAt(text) + 1, Len(text))
DropTrailingParen(text) ==
    IF text # <<>> /\ text[Len(text)] = ")"
    THEN SubSeq(text, 1, Len(text) - 1) ELSE text
NoParen(text) == SelectSeq(text, LAMBDA t : t # ")")

\* the page given has one table: the marker header and one plain td cell
OneCellPage ==
    /\ Len(lab.doc.tables) = 1
    /\ Len(lab.doc.tables[1]) = 2
    /\ lab.doc.tables[1][1] = Th(Marker)
    /\ lab.doc.tables[1][2].tag = "td"
    /\ ~lab.doc.tables[1][2].colspan

TheCellText == CellText(lab.doc.tables[1][2])

\* C12 as claimed: a cell text with one '(' and no space yields the part
\* before '(' unchanged and the part after it less its trailing ')'; any
\* other non-empty text yields itself
C12_TrailingParenOnly ==
    (Parsed /\ OneCellPage)
        => Flatten(lab.raw.val) =
               IF OneParen(TheCellText) /\ NoSpace(TheCellText)
               THEN <<Before(TheCellText),
                      DropTrailingParen(After(TheCellText))>>
               ELSE IF TheCellText # <<>> THEN <<TheCellText>> ELSE <<>>

\* C12 amended: such a cell yields the part before '(' and the part after
\* it, each with every ')' removed; any other non-empty text yields itself
C12_EveryParenRemoved ==
    (Parsed /\ OneCellPage)
        => Flatten(lab.raw.val) =
               IF OneParen(TheCellText) /\ NoSpace(TheCellText)
               THEN <<NoParen(Before(TheCellText)),
                      NoParen(After(TheCellText))>>
               ELSE IF TheCellText # <<>> THEN <<TheCellText>> ELSE <<>>

\* the cell "a)(b)c" was split into "a" and "bc"
C12_Witness ==
    /\ Parsed
    /\ OneCellPage
    /\ TheCellText = <<"a", ")", "(", "b", ")", "c">>
    /\ Flatten(lab.raw.val) = << <<"a">>, <<"b", "c">> >>

\* what one cell adds to the flat sequence
Contribution(cell) ==
    IF cell.tag # "td" \/ cell.colspan \/ CellText(cell) = <<>> THEN <<>>
    ELSE IF OneParen(CellText(cell)) /\ NoSpace(CellText(cell))
    THEN <<NoParen(Before(CellText(cell))), NoParen(After(CellText(cell)))>>
    ELSE <<CellText(cell)>>

RECURSIVE InOrder(_)
InOrder(cells) ==
    IF cells = <<>> THEN <<>>
    ELSE Contribution(Head(cells)) \o InOrder(Tail(cells))

\* the flat sequence of the page given
FlatData == InOrder(MarkerTables(lab.doc)[1])

\* C14: n elements are returned as ceil(n/4) groups, all of length 4 but
\* the last, which has n mod 4 elements when that is not 0; the groups
\* concatenated are the flat sequence
C14_Grouping ==
    Parsed
        => LET groups == lab.raw.val
               n == Len(FlatData)
           IN  /\ 4 * Len(groups) >= n
               /\ 4 * Len(groups) < n + 4
               /\ \A g \in DOMAIN groups :
                      Len(groups[g]) =
                          IF g < Len(groups) \/ n % 4 = 0 THEN 4 ELSE n % 4
               /\ Flatten(groups) = FlatData

\* seven elements came back as a group of four and a group of three
C14_Witness ==
    /\ Parsed
    /\ Len(FlatData) = 7
    /\ Len(lab.raw.val) = 2
    /\ Len(lab.raw.val[1]) = 4
    /\ Len(lab.raw.val[2]) = 3

\* every group the parser returned has four elements
AllFour == \A g \in DOMAIN lab.raw.val : Len(lab.raw.val[g]) = 4

\* C15: a sequence of 4-tuples compiles to a mapping whose keys are the
\* names in the sequence, each with the short name, data type and
\* description of the last tuple of that name
C15_LastWins ==
    (Compiled /\ AllFour)
        => LET tuples == lab.raw.val
           IN  /\ lab.flags.exc = "none"
               /\ DOMAIN lab.flags.val = {tuples[g][1] : g \in DOMAIN tuples}
               /\ \A g \in DOMAIN tuples :
                      (\A h \in DOMAIN tuples :
                           tuples[h][1] = tuples[g][1] => h <= g)
                          => lab.flags.val[tuples[g][1]] =
                                 [short |-> tuples[g][2],
                                  data_type |-> tuples[g][3],
                                  description |-> tuples[g][4]]

\* two tuples of one name and different contents compiled to one entry,
\* that of the second
C15_Witness ==
    /\ Compiled
    /\ Len(lab.raw.val) = 2
    /\ AllFour
    /\ lab.raw.val[1][1] = lab.raw.val[2][1]
    /\ lab.raw.val[1][3] # lab.raw.val[2][3]
    /\ Cardinality(DOMAIN lab.flags.val) = 1
    /\ lab.flags.val[lab.raw.val[2][1]].data_type = lab.raw.val[2][3]

\* C17: the page of one flag table, with th header cells and the data row
\* translate(t), distance, linear distance value, compiles to the one entry
\* translate -> {short t, data_type distance, description linear distance
\* value}; the header cells add nothing to the records
C17_EndToEnd ==
    (Compiled /\ lab.doc = PageTranslate)
        => /\ lab.raw =
                  Ok(<< << <<"translate">>, <<"t">>, <<"distance">>,
                           <<"linear", " ", "distance", " ", "value">> >> >>)
           /\ lab.flags =
                  Ok(<<"translate">> :>
                         [short |-> <<"t">>,
                          data_type |-> <<"distance">>,
                          description |->
                              <<"linear", " ", "distance", " ", "value">>])

\* that page has been parsed and compiled, into one entry
C17_Witness ==
    /\ Compiled
    /\ lab.doc = PageTranslate
    /\ lab.doc.tables[1][1] = Th(Marker)
    /\ Len(lab.raw.val) = 1
    /\ DOMAIN lab.flags.val = {<<"translate">>}

\* the text build_command_stub is claimed to show for the flag k
Shown(k, v, shortname, combined) ==
    (IF combined THEN k \o <<"(">> \o v.short \o <<")">>
     ELSE IF shortname THEN v.short ELSE k)
        \o <<"=">>
        \o <<CASE v.data_type = <<"boolean">> -> "bool"
               [] v.data_type = <<"string">> -> "str"
               [] v.data_type = <<"int">> -> "int">>

RECURSIVE ShownAll(_, _, _, _)
ShownAll(order, signatures, shortname, combined) ==
    IF order = <<>> THEN <<>>
    ELSE Shown(order[1], signatures[order[1]], shortname, combined)
             \o (IF Len(order) = 1 THEN <<>> ELSE <<",", " ">>)
             \o ShownAll(Tail(order), signatures, shortname, combined)

\* C18: the call fails with KeyError exactly when some flag has a data
\* type other than boolean, string or int; otherwise the stub lists every
\* flag as long(short)=type when combined is set, as short=type when only
\* shortname is set, and as long=type when neither is
C18_StubText ==
    Stubbed
        => LET signatures == lab.flags.val
               unknown == \E k \in DOMAIN signatures :
                              signatures[k].data_type \notin
                                  {<<"boolean">>, <<"string">>, <<"int">>}
           IN  IF unknown
               THEN lab.stub.exc = "KeyError"
               ELSE lab.stub =
                        Ok(<<"def", " ", lab.args.command, "(", "*args",
                             ",", " ">>
                           \o ShownAll(lab.args.order, signatures,
                                       lab.args.shortname, lab.args.combined)
                           \o <<")", ":", "\n", "\t", "pass">>)

\* with shortname and combined both set, the stub of a boolean flag
\* translate(t) reads def move(*args, translate(t)=bool):\n\tpass
C18_Witness ==
    /\ Stubbed
    /\ lab.args.shortname
    /\ lab.args.combined
    /\ lab.stub =
           Ok(<<"def", " ", "move", "(", "*args", ",", " ", "translate", "(",
                "t", ")", "=", "bool", ")", ":", "\n", "\t", "pass">>)

\* C19: the flat sequence is what the td cells without colspan and with
\* text left after trimming add, one after the other in document order;
\* a cell with colspan and a cell of whitespace only add nothing
C19_CellFiltering ==
    Parsed
        => /\ Flatten(lab.raw.val) = FlatData
           /\ LET cells == MarkerTables(lab.doc)[1]
                  kept == SelectSeq(cells,
                              LAMBDA cell : /\ ~cell.colspan
                                            /\ Trimmed(cell.text) # <<>>)
              IN  Flatten(lab.raw.val) = InOrder(kept)

\* a table with a colspan cell, a cell of whitespace and two cells of text
\* gave the elements of the two cells of text, in their order
C19_Witness ==
    /\ Parsed
    /\ LET cells == lab.doc.tables[1]
       IN  /\ Len(cells) = 5
           /\ cells[2].colspan
           /\ cells[3] = Td(<<" ", "\n">>)
           /\ cells[4] = Td(<<"distance">>)
           /\ cells[5] = Td(<<"translate", "(", "t", ")">>)
    /\ Flatten(lab.raw.val) = << <<"distance">>, <<"translate">>, <<"t">> >>

====
